---- MODULE Spec2Model ----
(***************************************************************************)
(* A model of rstml's RawText node (src/node/raw_text.rs): the token       *)
(* accumulator (impl Parse), the constructors, the context assignment of   *)
(* a sibling list (vec_set_context / set_tag_spans) and the three text     *)
(* recovery strategies (to_source_text, to_token_stream_string,            *)
(* to_string_best).                                                        *)
(*                                                                         *)
(* Option<T> is a sequence of length at most one: None is <<>> and         *)
(* Some(x) is <<x>>.  A String is a sequence of one-character strings.     *)
(***************************************************************************)
EXTENDS Integers, Sequences, FiniteSets

VARIABLES
    input,            \* parse: the tokens left in the cursor (ParseStream)
    input0,           \* parse: the cursor's tokens when the constructor began
    token_stream,     \* parse: the local `token_stream` being accumulated
    pc,               \* parse: "start" | "loop" | "done"; "idle" in Spec
    made,             \* the RawText the constructor returned (Option)
    origin,           \* which constructor returned it
    children,         \* the sibling list owned by the container
    open_tag_end,     \* argument of the latest vec_set_context call (Option)
    close_tag_start,  \* argument of the latest vec_set_context call (Option)
    result,           \* the latest operation on the list and its outcome
    join_avail,       \* environment: Span::join is supported
    debug_assertions  \* build: debug_assert! is compiled in

vars == <<input, input0, token_stream, pc, made, origin, children,
          open_tag_end, close_tag_start, result, join_avail, debug_assertions>>

parseVars == <<input, input0, token_stream, pc, made, origin>>
ctxVars == <<children, open_tag_end, close_tag_start, result>>
envVars == <<join_avail, debug_assertions>>

----------------------------------------------------------------------------
(* Bounds *)

MaxInput == 3
MaxSiblings == 2

----------------------------------------------------------------------------
(* Option and String helpers *)

None == <<>>
Some(x) == <<x>>
IsSome(o) == o # <<>>
Unwrap(o) == o[1]

SeqsUpTo(S, n) == UNION {[1..k -> S] : k \in 0..n}

\* str::starts_with / str::ends_with
StartsWith(s, p) == Len(p) <= Len(s) /\ SubSeq(s, 1, Len(p)) = p
EndsWith(s, p) == Len(p) <= Len(s) /\ SubSeq(s, Len(s) - Len(p) + 1, Len(s)) = p

----------------------------------------------------------------------------
(* Spans: the environment's span capability *)

\* One line of original source; a span with source text is the region
\* [lo, hi) of it.
Source == <<"a", "b", " ", "h", " ", "c">>

Sp(lo, hi) == [lo |-> lo, hi |-> hi, real |-> TRUE]
\* A span with no mapping back to the source (Span::call_site(), generated
\* tokens).
Synthetic == [lo |-> 0, hi |-> 0, real |-> FALSE]

\* The spans a container is handed as boundaries
Spans == {Sp(0, 1), Sp(1, 2), Sp(5, 6), Synthetic}

Min(a, b) == IF a <= b THEN a ELSE b
Max(a, b) == IF a >= b THEN a ELSE b

\* Span::join: the span covering both, when the environment can join and the
\* two spans come from the same source.
Join(a, b) ==
    IF ~join_avail \/ a.real # b.real THEN None
    ELSE IF ~a.real THEN Some(Synthetic)
    ELSE Some(Sp(Min(a.lo, b.lo), Max(a.hi, b.hi)))

\* Span::source_text: the exact text of the region, absent for a synthetic
\* span.
SourceText(s) ==
    IF s.real THEN Some(SubSeq(Source, s.lo + 1, s.hi)) ELSE None

----------------------------------------------------------------------------
(* Tokens *)

Tok(kind, text, span) == [kind |-> kind, text |-> text, span |-> span]

StrLits == {"\"s\""}

\* The tokens a cursor can hold: `<`, `+`, `{..}`, `(..)`, "s", h
ParseTokens ==
    {Tok("Punct", "<", Synthetic), Tok("Punct", "+", Synthetic),
     Tok("Group", "{", Synthetic), Tok("Group", "(", Synthetic),
     Tok("Literal", "\"s\"", Synthetic), Tok("Ident", "h", Synthetic)}

\* input.peek(Token![<]) || input.peek(Brace) || input.peek(LitStr), on the
\* cursor's next token
TokenIsNodeStart(t) ==
    \/ t.kind = "Punct" /\ t.text = "<"
    \/ t.kind = "Group" /\ t.text = "{"
    \/ t.kind = "Literal" /\ t.text \in StrLits

\* any_node with the brace and string-literal peeks left out
any_node_OnlyLt(in) ==
    in # <<>> /\ Head(in).kind = "Punct" /\ Head(in).text = "<"

\* any_node with the brace peek left out
any_node_NoBrace(in) ==
    in # <<>> /\ TokenIsNodeStart(Head(in)) /\ Head(in).kind # "Group"

any_node(in) == in # <<>> /\ TokenIsNodeStart(Head(in))

----------------------------------------------------------------------------
(* RawText *)

RawText(ts, ctx) ==
    [kind |-> "RawText", token_stream |-> ts, context_span |-> ctx,
     span |-> Synthetic]

\* Any other Node variant: only its representative span matters here.
Element(s) ==
    [kind |-> "Element", token_stream |-> <<>>, context_span |-> None,
     span |-> s]

\* set_tag_spans storing the pair the wrong way round
set_tag_spans_Swapped(t, before, after) ==
    [t EXCEPT !.context_span = Some(<<after, before>>)]

set_tag_spans(t, before, after) ==
    [t EXCEPT !.context_span = Some(<<before, after>>)]

\* TokenStream's Display: the tokens' texts with the default spacing
RECURSIVE Render(_)
Render(ts) ==
    IF ts = <<>> THEN <<>>
    ELSE IF Len(ts) = 1 THEN <<ts[1].text>>
    ELSE <<ts[1].text, " ">> \o Render(Tail(ts))

to_token_stream_string(t) == Render(t.token_stream)

\* The loop of join_spans: `acc` is the local `span`, `ts` the tokens left.
RECURSIVE JoinLoop(_, _)
JoinLoop(acc, ts) ==
    IF ts = <<>> THEN acc
    ELSE IF IsSome(acc)
         THEN LET j == Join(Unwrap(acc), ts[1].span)
              IN IF IsSome(j) THEN JoinLoop(j, Tail(ts)) ELSE None
         ELSE JoinLoop(Some(ts[1].span), Tail(ts))

join_spans(t) == JoinLoop(None, t.token_stream)

is_empty(t) == t.token_stream = <<>>

\* The outcome of a call: it returned `ret`, or it panicked.
Ret(v) == [panic |-> "no", ret |-> v]
Panic(why) == [panic |-> why, ret |-> None]

\* full_text[start_text.len()..(full_text.len() - end_text.len())]
Slice(full_text, start_len, end_len) ==
    IF end_len > Len(full_text) \/ start_len > Len(full_text) - end_len
    THEN Panic("slice")
    ELSE Ret(Some(SubSeq(full_text, start_len + 1, Len(full_text) - end_len)))

to_source_text(t, with_whitespaces) ==
    IF with_whitespaces
    THEN IF ~IsSome(t.context_span) THEN Ret(None)
         ELSE LET start == Unwrap(t.context_span)[1]
                  end == Unwrap(t.context_span)[2]
                  full == Join(start, end)
              IN IF ~IsSome(full) THEN Ret(None)
                 ELSE IF ~IsSome(SourceText(Unwrap(full))) THEN Ret(None)
                 ELSE IF ~IsSome(SourceText(start)) THEN Ret(None)
                 ELSE IF ~IsSome(SourceText(end)) THEN Ret(None)
                 ELSE LET full_text == Unwrap(SourceText(Unwrap(full)))
                          start_text == Unwrap(SourceText(start))
                          end_text == Unwrap(SourceText(end))
                      IN IF debug_assertions /\ ~EndsWith(full_text, end_text)
                         THEN Panic("debug_assert")
                         ELSE IF debug_assertions
                                 /\ ~StartsWith(full_text, start_text)
                         THEN Panic("debug_assert")
                         ELSE Slice(full_text, Len(start_text), Len(end_text))
    ELSE LET j == join_spans(t)
         IN IF IsSome(j) THEN Ret(SourceText(Unwrap(j))) ELSE Ret(None)

to_string_best(t) ==
    LET s1 == to_source_text(t, TRUE)
    IN IF s1.panic # "no" THEN s1
       ELSE IF IsSome(s1.ret) THEN s1
       ELSE LET s2 == to_source_text(t, FALSE)
            IN IF IsSome(s2.ret) THEN s2
               ELSE Ret(Some(to_token_stream_string(t)))

----------------------------------------------------------------------------
(* The sibling list and its context assignment *)

\* Node::span() of a sibling: for a RawText the span of its tokens (the first
\* joined with the last where possible, the call site when it has none).
NodeSpan(n) ==
    IF n.kind # "RawText" THEN n.span
    ELSE IF n.token_stream = <<>> THEN Synthetic
    ELSE LET first == n.token_stream[1].span
             last == n.token_stream[Len(n.token_stream)].span
             j == IF Len(n.token_stream) = 1 THEN None ELSE Join(first, last)
         IN IF IsSome(j) THEN Unwrap(j) ELSE first

\* `spans` with open_tag_end standing in for an absent close_tag_start
Boundaries_Pad(E, C, ch) ==
    <<E>> \o [i \in 1..Len(ch) |-> NodeSpan(ch[i])]
          \o (IF C = None THEN <<E>> ELSE C)

\* `spans`: open_tag_end, each child's span, close_tag_start if present
Boundaries(E, C, ch) == <<E>> \o [i \in 1..Len(ch) |-> NodeSpan(ch[i])] \o C

\* spans.windows(3).zip(&mut children): how many children are paired
NumWindows(B, ch) == Min(Max(Len(B) - 2, 0), Len(ch))

\* vec_set_context pairing each child with its two nearest entries
vec_set_context_Adjacent(E, C, ch) ==
    LET B == Boundaries(E, C, ch)
    IN [i \in 1..Len(ch) |->
          IF i <= NumWindows(B, ch) /\ ch[i].kind = "RawText"
          THEN set_tag_spans(ch[i], B[i], B[i + 1])
          ELSE ch[i]]

\* vec_set_context returning only the children the zip paired
vec_set_context_Truncated(E, C, ch) ==
    LET B == Boundaries(E, C, ch)
    IN [i \in 1..NumWindows(B, ch) |->
          IF ch[i].kind = "RawText"
          THEN set_tag_spans(ch[i], B[i], B[i + 2])
          ELSE ch[i]]

vec_set_context(E, C, ch) ==
    LET B == Boundaries(E, C, ch)
    IN [i \in 1..Len(ch) |->
          IF i <= NumWindows(B, ch) /\ ch[i].kind = "RawText"
          THEN set_tag_spans(ch[i], B[i], B[i + 2])
          ELSE ch[i]]

----------------------------------------------------------------------------
(* Specification of the constructors: parse, From<TokenStream>, Default *)

NoResult == [op |-> "none", i |-> 0, w |-> FALSE, out |-> Ret(None)]

InitParse ==
    /\ input \in SeqsUpTo(ParseTokens, MaxInput)
    /\ input0 = input
    /\ token_stream = <<>>
    /\ pc = "start"
    /\ made = None
    /\ origin = "none"
    /\ children = <<>>
    /\ open_tag_end = None
    /\ close_tag_start = None
    /\ result = NoResult
    /\ join_avail = TRUE
    /\ debug_assertions = TRUE

\* let mut token_stream = TokenStream::new();
ParseEnter ==
    /\ pc = "start"
    /\ pc' = "loop"
    /\ token_stream' = <<>>
    /\ UNCHANGED <<input, input0, made, origin, ctxVars, envVars>>

\* one iteration of the while loop
ParseStep ==
    /\ pc = "loop"
    /\ ~any_node(input) /\ input # <<>>
    /\ token_stream' = Append(token_stream, Head(input))
    /\ input' = Tail(input)
    /\ UNCHANGED <<input0, pc, made, origin, ctxVars, envVars>>

\* the loop's exit and Ok(Self { token_stream, context_span: None })
ParseReturn ==
    /\ pc = "loop"
    /\ ~(~any_node(input) /\ input # <<>>)
    /\ made' = Some(RawText(token_stream, None))
    /\ origin' = "parse"
    /\ pc' = "done"
    /\ UNCHANGED <<input, input0, token_stream, ctxVars, envVars>>

\* RawText::from(token_stream): the whole pre-built stream is taken as is
FromTokenStream ==
    /\ pc = "start"
    /\ made' = Some(RawText(input, None))
    /\ origin' = "from"
    /\ pc' = "done"
    /\ UNCHANGED <<input, input0, token_stream, ctxVars, envVars>>

\* RawText::default()
DefaultRawText ==
    /\ pc = "start"
    /\ made' = Some(RawText(<<>>, None))
    /\ origin' = "default"
    /\ pc' = "done"
    /\ UNCHANGED <<input, input0, token_stream, ctxVars, envVars>>

NextParse ==
    \/ ParseEnter
    \/ ParseStep
    \/ ParseReturn
    \/ FromTokenStream
    \/ DefaultRawText

SpecParse == InitParse /\ [][NextParse]_vars

----------------------------------------------------------------------------
(* Properties of the constructors, checked under SpecParse *)

BeginsWithNodeStart(ts) == ts # <<>> /\ TokenIsNodeStart(ts[1])

\* C2: RawText::parse consumes exactly the longest prefix of the cursor that
\* holds no node-start token (`<`, a brace group, a string literal), stores
\* the consumed units in order with no context, and leaves the cursor
\* exhausted or at the first node-start token; so a cursor that begins with
\* an ordinary token yields at least one token, and an empty cursor or one
\* that begins with a node-start yields an empty RawText and consumes nothing.
C2_Segmentation ==
    origin = "parse" =>
        LET ts == Unwrap(made).token_stream
        IN /\ ts \o input = input0
           /\ \A k \in 1..Len(ts) : ~TokenIsNodeStart(ts[k])
           /\ input = <<>> \/ TokenIsNodeStart(input[1])
           /\ Unwrap(made).context_span = None
           /\ (input0 # <<>> /\ ~TokenIsNodeStart(input0[1])) => Len(ts) >= 1
           /\ (input0 = <<>> \/ TokenIsNodeStart(input0[1]))
                 => ts = <<>> /\ input = input0

\* parse consumed two tokens and stopped in front of a node-start token
C2_Witness ==
    /\ origin = "parse"
    /\ Len(Unwrap(made).token_stream) = 2
    /\ input # <<>>
    /\ TokenIsNodeStart(input[1])

\* C6 as stated: no RawText, however constructed, has a token sequence that
\* begins with a node-start token.
C6_Original ==
    IsSome(made) => ~BeginsWithNodeStart(Unwrap(made).token_stream)

\* C6 as amended: a RawText returned by RawText::parse (or by Default) never
\* begins with a node-start token; RawText::from stores the sequence it is
\* given unchanged, whatever its first token.
C6_ParsedNeverBeginsWithNodeStart ==
    /\ origin \in {"parse", "default"}
          => ~BeginsWithNodeStart(Unwrap(made).token_stream)
    /\ origin = "from" => Unwrap(made).token_stream = input0

\* parse returned a non-empty RawText from a cursor that went on with a brace
\* group
C6_Witness ==
    /\ origin = "parse"
    /\ Unwrap(made).token_stream # <<>>
    /\ input # <<>>
    /\ input[1].kind = "Group"
    /\ TokenIsNodeStart(input[1])

----------------------------------------------------------------------------
(* Specification of a container: its siblings, context, text recovery *)

tH == Tok("Ident", "h", Sp(3, 4))
tC == Tok("Ident", "c", Sp(5, 6))

\* The siblings a container can hold, as their constructors return them
\* (context_span: None).
NodePool ==
    {RawText(<<>>, None), RawText(<<tH>>, None), RawText(<<tH, tC>>, None),
     Element(Sp(1, 2))}

Init ==
    /\ input = <<>>
    /\ input0 = <<>>
    /\ token_stream = <<>>
    /\ pc = "idle"
    /\ made = None
    /\ origin = "none"
    /\ children \in SeqsUpTo(NodePool, MaxSiblings)
    /\ open_tag_end = None
    /\ close_tag_start = None
    /\ result = NoResult
    /\ join_avail \in BOOLEAN
    /\ debug_assertions \in BOOLEAN

VecSetContext(E, C) ==
    /\ children' = vec_set_context(E, C, children)
    /\ open_tag_end' = Some(E)
    /\ close_tag_start' = C
    /\ result' = [NoResult EXCEPT !.op = "vec_set_context"]
    /\ UNCHANGED <<parseVars, envVars>>

ToSourceText(i, w) ==
    /\ children[i].kind = "RawText"
    /\ result' = [op |-> "to_source_text", i |-> i, w |-> w,
                  out |-> to_source_text(children[i], w)]
    /\ UNCHANGED <<parseVars, envVars, children, open_tag_end,
                   close_tag_start>>

ToTokenStreamString(i) ==
    /\ children[i].kind = "RawText"
    /\ result' = [op |-> "to_token_stream_string", i |-> i, w |-> FALSE,
                  out |-> Ret(Some(to_token_stream_string(children[i])))]
    /\ UNCHANGED <<parseVars, envVars, children, open_tag_end,
                   close_tag_start>>

ToStringBest(i) ==
    /\ children[i].kind = "RawText"
    /\ result' = [op |-> "to_string_best", i |-> i, w |-> FALSE,
                  out |-> to_string_best(children[i])]
    /\ UNCHANGED <<parseVars, envVars, children, open_tag_end,
                   close_tag_start>>

Next ==
    \/ \E E \in Spans : \E C \in {None} \cup {Some(s) : s \in Spans} :
          VecSetContext(E, C)
    \/ \E i \in 1..Len(children) : \E w \in BOOLEAN : ToSourceText(i, w)
    \/ \E i \in 1..Len(children) : ToTokenStreamString(i)
    \/ \E i \in 1..Len(children) : ToStringBest(i)

Spec == Init /\ [][Next]_vars

----------------------------------------------------------------------------
(* Properties of a container, checked under Spec *)

Called == IsSome(open_tag_end)
IsRawText(i) == children[i].kind = "RawText"
Ctx(i) == children[i].context_span

\* The boundary list of the latest call: [E] ++ sibling spans ++ [C if present]
B == <<Unwrap(open_tag_end)>>
        \o [i \in 1..Len(children) |-> NodeSpan(children[i])]
        \o close_tag_start

\* C1 as stated: after vec_set_context every RawText sibling i holds
\* (B[i], B[i+2]), whether or not a close-start span was given.
C1_Original ==
    Called =>
        \A i \in 1..Len(children) :
            IsRawText(i) =>
                /\ i + 2 <= Len(B)
                /\ Ctx(i) = Some(<<B[i], B[i + 2]>>)

\* C1 as amended: after vec_set_context every RawText sibling i for which
\* B[i+2] exists (every sibling when the close-start span is present, every
\* sibling but the last when it is absent) holds (B[i], B[i+2]); the first
\* such sibling's span_before is E and, when C is present, the last sibling's
\* span_after is C.
C1_Windowing ==
    Called =>
        /\ \A i \in 1..Len(children) :
              (IsRawText(i) /\ i + 2 <= Len(B))
                  => Ctx(i) = Some(<<B[i], B[i + 2]>>)
        /\ (Len(children) >= 1 /\ IsRawText(1) /\ 3 <= Len(B))
              => Unwrap(Ctx(1))[1] = Unwrap(open_tag_end)
        /\ (Len(children) >= 1 /\ IsRawText(Len(children))
               /\ IsSome(close_tag_start))
              => Unwrap(Ctx(Len(children)))[2] = Unwrap(close_tag_start)

\* two RawText siblings after a call with both boundary spans: the first ends
\* at the second's span, the second at the close-start span
C1_Witness ==
    /\ Called
    /\ IsSome(close_tag_start)
    /\ Len(children) = 2
    /\ IsRawText(1) /\ IsRawText(2)
    /\ children[1].token_stream # <<>>
    /\ Ctx(1) = Some(<<Unwrap(open_tag_end), NodeSpan(children[2])>>)
    /\ Ctx(2) = Some(<<NodeSpan(children[1]), Unwrap(close_tag_start)>>)
    /\ Unwrap(open_tag_end) # Unwrap(close_tag_start)

\* C5 as stated: once a RawText's context holds a value it never changes,
\* whatever operation follows, a second vec_set_context call included.
C5_Original ==
    [][\A i \in 1..Len(children) :
          IsSome(Ctx(i)) => children'[i].context_span = Ctx(i)]_vars

\* C5 as amended: a RawText's context is None until a vec_set_context call
\* assigns it; only a vec_set_context call changes it, never back to None,
\* and every call (a second one too) overwrites the context of each RawText
\* it pairs with a window with that call's (B[i], B[i+2]).
C5_AssignedOnlyByContainer ==
    /\ [](~Called => \A i \in 1..Len(children) : Ctx(i) = None)
    /\ [][\A i \in 1..Len(children) :
            children'[i].context_span # Ctx(i) =>
                /\ result'.op = "vec_set_context"
                /\ IsRawText(i)
                /\ i + 2 <= Len(B')
                /\ children'[i].context_span = Some(<<B'[i], B'[i + 2]>>)]_vars

\* the last sibling still holds the context of an earlier call: the latest
\* call had no close-start span, while the first sibling was overwritten
C5_Witness ==
    /\ Called
    /\ close_tag_start = None
    /\ Len(children) = 2
    /\ IsRawText(1) /\ IsRawText(2)
    /\ IsSome(Ctx(1)) /\ IsSome(Ctx(2))
    /\ Unwrap(Ctx(2))[1] = NodeSpan(children[1])

\* C9: vec_set_context returns the sibling list with the same length and
\* order; every non-RawText sibling is unmodified and a RawText sibling keeps
\* its token sequence: only its context may change.
C9_Frame ==
    [][/\ Len(children') = Len(children)
       /\ \A i \in 1..Len(children) :
            /\ children'[i].kind = children[i].kind
            /\ children'[i].token_stream = children[i].token_stream
            /\ children'[i].span = children[i].span
            /\ ~IsRawText(i) => children'[i] = children[i]]_vars

\* a call has just assigned the context of a RawText that holds tokens, in a
\* list that also holds another kind of node
C9_Witness ==
    /\ result.op = "vec_set_context"
    /\ Len(children) = 2
    /\ ~IsRawText(1)
    /\ IsRawText(2) /\ children[2].token_stream # <<>> /\ IsSome(Ctx(2))

\* C10: a vec_set_context call without a close-start span pairs no window
\* with the last sibling: its context is left as it was (None after parsing,
\* so to_source_text(true) on it reports unavailable), every earlier RawText
\* sibling receives (B[i], B[i+2]), and a single sibling receives nothing.
C10_NoCloseStart ==
    /\ [](/\ result.op = "to_source_text"
          /\ result.w
          /\ Ctx(result.i) = None
          => result.out = Ret(None))
    /\ [][(result'.op = "vec_set_context" /\ close_tag_start' = None) =>
            /\ Len(B') = Len(children) + 1
            /\ Len(children) >= 1 =>
                  children'[Len(children)] = children[Len(children)]
            /\ \A i \in 1..(Len(children) - 1) :
                  IsRawText(i) =>
                      children'[i].context_span = Some(<<B'[i], B'[i + 2]>>)
            /\ Len(children) = 1 => children' = children]_vars

\* after a call without a close-start span the first RawText holds its
\* context, the last holds none and to_source_text(true) on it returned None
C10_Witness ==
    /\ Called
    /\ close_tag_start = None
    /\ Len(children) = 2
    /\ IsRawText(1) /\ IsSome(Ctx(1))
    /\ IsRawText(2) /\ Ctx(2) = None
    /\ result.op = "to_source_text" /\ result.w /\ result.i = 2
    /\ result.out = Ret(None)

----------------------------------------------------------------------------
(* Properties of text recovery, checked under Spec *)

\* The RawText the latest text-recovery call was made on
Target == children[result.i]

\* C3: to_string_best returns the string of to_source_text(true) when that is
\* available, else that of to_source_text(false) when available, else
\* to_token_stream_string(); it always produces a string.  (A panic of the
\* debug assertions is left aside here: the statement is about every other
\* call.)
C3_BestString ==
    (result.op = "to_string_best" /\ result.out.panic # "debug_assert") =>
        LET s1 == to_source_text(Target, TRUE)
            s2 == to_source_text(Target, FALSE)
        IN /\ result.out.panic = "no"
           /\ IsSome(result.out.ret)
           /\ result.out.ret =
                 IF IsSome(s1.ret) THEN s1.ret
                 ELSE IF IsSome(s2.ret) THEN s2.ret
                 ELSE Some(to_token_stream_string(Target))

\* C4: whenever to_source_text(true) returns a string, it is the text of the
\* joined span with the before-text removed from the front and the
\* after-text from the back: the lengths subtract and
\* before ++ result ++ after is the full text.
C4_StripInvariant ==
    (/\ result.op = "to_source_text"
     /\ result.w
     /\ result.out.panic = "no"
     /\ IsSome(result.out.ret)) =>
        LET start == Unwrap(Target.context_span)[1]
            end == Unwrap(Target.context_span)[2]
            full_text == Unwrap(SourceText(Unwrap(Join(start, end))))
            before_text == Unwrap(SourceText(start))
            after_text == Unwrap(SourceText(end))
            r == Unwrap(result.out.ret)
        IN /\ Len(r) = Len(full_text) - Len(before_text) - Len(after_text)
           /\ before_text \o r \o after_text = full_text

\* C7: whatever pair of context spans a RawText holds, a text-recovery call
\* returns a string or "unavailable"; it panics, if at all, only in the
\* prefix/suffix assertions.
C7_NoPanic ==
    result.op \in {"to_source_text", "to_string_best"}
        => result.out.panic \in {"no", "debug_assert"}

\* C8: on a RawText with no tokens whose context holds joinable boundary
\* spans that have source text, to_source_text(true) returns a string,
\* to_source_text(false) returns unavailable and to_token_stream_string
\* returns "".  (A panic of the debug assertions is left aside here.)
C8_EmptyFiller ==
    (/\ result.op \in {"to_source_text", "to_token_stream_string"}
     /\ is_empty(Target)
     /\ IsSome(Target.context_span)
     /\ IsSome(Join(Unwrap(Target.context_span)[1],
                    Unwrap(Target.context_span)[2]))
     /\ IsSome(SourceText(Unwrap(Target.context_span)[1]))
     /\ IsSome(SourceText(Unwrap(Target.context_span)[2]))
     /\ result.out.panic # "debug_assert") =>
        /\ (result.op = "to_source_text" /\ result.w)
              => result.out.panic = "no" /\ IsSome(result.out.ret)
        /\ (result.op = "to_source_text" /\ ~result.w)
              => result.out = Ret(None)
        /\ result.op = "to_token_stream_string"
              => result.out = Ret(Some(<<>>))

====
